---- MODULE Spec2Model ----
(***************************************************************************)
(* Order fulfilment engine of nest-ecommerce: checkout (OrdersService.     *)
(* create), cancellation (OrdersService.cancel), the order status state    *)
(* machine (canTransition, OrdersService.updateStatus, AdminService.       *)
(* updateOrderStatus) and the payment callbacks that write order status.   *)
(*                                                                         *)
(* Storage is a relational database at READ COMMITTED: a statement issued  *)
(* through a query runner's manager is part of that runner's transaction   *)
(* (its effect is pending until commitTransaction, discarded by            *)
(* rollbackTransaction; the row it wrote stays locked until then); a       *)
(* statement issued through a repository commits on its own.  Reads never  *)
(* block and see committed data only.                                      *)
(*                                                                         *)
(* Money is kept in cents (2500 is 25.00).                                 *)
(***************************************************************************)
EXTENDS Integers, Sequences, FiniteSets, TLC

\* ------------------------------------------------------------------ bounds
MaxStock == 2        \* the largest stock a row starts with
MaxCalls == 4        \* calls started in one behaviour of Spec
MaxUpdates == 4      \* calls started after the checkout in one behaviour of SpecLifecycle

\* --------------------------------------------------------------- constants
TAX_RATE == 8                    \* percent: configService TAX_RATE 0.08
SHIPPING_COST == 1000            \* cents: configService SHIPPING_COST 10
FREE_SHIPPING_THRESHOLD == 10000 \* cents: FREE_SHIPPING_THRESHOLD 100

Users == {"u1", "u2"}
Products == {"p1", "p2"}
Variants == {"v1"}
NoVariant == "novariant"
Rows == Products \cup Variants           \* the rows that carry a stock column

NullDate == 0
NullText == "null"

\* Product.salePrice / ProductVariant.salePrice, in cents (nullable)
NullPrice == -1
SalePrice == [r \in Rows |-> IF r = "v1" THEN 2800 ELSE NullPrice]

\* Product.price / ProductVariant.price, in cents
Price == [r \in Rows |-> CASE r = "p1" -> 2500 [] r = "p2" -> 5000 [] OTHER -> 3000]

\* OrderStatus enum
PENDING == "pending"
CONFIRMED == "confirmed"
PROCESSING == "processing"
SHIPPED == "shipped"
DELIVERED == "delivered"
CANCELLED == "cancelled"
REFUNDED == "refunded"
RETURNED == "returned"
OrderStatus ==
  {PENDING, CONFIRMED, PROCESSING, SHIPPED, DELIVERED, CANCELLED, REFUNDED, RETURNED}

\* PaymentStatus enum (the members the order engine writes)
PAY_PENDING == "pay_pending"
PAY_COMPLETED == "pay_completed"
PAY_FAILED == "pay_failed"
PAY_REFUNDED == "pay_refunded"

\* ProductStatus enum
ACTIVE == "active"
INACTIVE == "inactive"

\* ------------------------------------------------------- order state machine
\* A mutation of the table: CANCELLED keeps an outgoing edge.
ORDER_STATUS_TRANSITIONS_reopen ==
  [s \in OrderStatus |->
     CASE s = PENDING -> {CONFIRMED, CANCELLED}
       [] s = CONFIRMED -> {PROCESSING, CANCELLED}
       [] s = PROCESSING -> {SHIPPED, CANCELLED}
       [] s = SHIPPED -> {DELIVERED}
       [] s = DELIVERED -> {RETURNED}
       [] s = CANCELLED -> {PENDING}
       [] OTHER -> {}]

ORDER_STATUS_TRANSITIONS ==
  [s \in OrderStatus |->
     CASE s = PENDING -> {CONFIRMED, CANCELLED}
       [] s = CONFIRMED -> {PROCESSING, CANCELLED}
       [] s = PROCESSING -> {SHIPPED, CANCELLED}
       [] s = SHIPPED -> {DELIVERED}
       [] s = DELIVERED -> {RETURNED}
       [] s = CANCELLED -> {}
       [] s = REFUNDED -> {}
       [] s = RETURNED -> {}]

canTransition(currentStatus, newStatus) ==
  LET allowedTransitions == ORDER_STATUS_TRANSITIONS[currentStatus]
  IN  newStatus \in allowedTransitions \/ currentStatus = newStatus

\* ------------------------------------------------------------------ pricing
\* Math.round(x * 100) / 100 for x >= 0, where n is x in units of 1/10000
\* (x * 100 is n / 100 cents; Math.round rounds half up); the result is cents.
Round2(n) == (n + 50) \div 100

\* ------------------------------------------------------------------- state
VARIABLES
  stock,        \* committed stock column of every product and variant row
  soldCount,    \* committed Product.soldCount
  productStatus,\* Product.status
  cart,         \* committed cart_items of each user, in the order find returns them
  orders,       \* committed orders table: a sequence, an order's id is its index
  payments,     \* committed payments table: a sequence, a payment's id is its index
  rowLock,      \* product/variant row -> the transaction holding its write lock
  tx,           \* transaction -> the stock/soldCount increments it has pending
  cr,           \* OrdersService.create call of each user
  ca,           \* OrdersService.cancel calls in flight, by slot
  us,           \* the OrdersService.updateStatus call in flight
  ad,           \* the AdminService.updateOrderStatus call in flight
  last,         \* the call that finished last and how it ended
  now,          \* the clock read by new Date(); it ticks when a call starts
  callsLeft,    \* calls that may still start in this behaviour
  probe,        \* a pure function's arguments and, once applied, its result
  coupons       \* committed coupons table, by code

db == <<stock, soldCount, productStatus, cart, orders, payments>>
vars == <<stock, soldCount, productStatus, cart, orders, payments,
          rowLock, tx, cr, ca, us, ad, last, now, callsLeft, probe, coupons>>

clock == <<now, callsLeft, probe, coupons>>
\* A call arrives: the clock ticks.
Tick ==
  /\ callsLeft > 0
  /\ callsLeft' = callsLeft - 1
  /\ now' = now + 1
StartCall ==
  /\ Tick
  /\ UNCHANGED <<probe, coupons>>

\* What a finished call leaves behind: the operation, its outcome ("ok" or
\* the error) and, for create and cancel, how many stock writes it had issued
\* when it ended (for the others, the row it was about).
Outcome(op, result, at) == [op |-> op, result |-> result, at |-> at]
NoCall == Outcome("none", "none", 0)

NoTx == "notx"
CancelSlots == {"c1", "c2"}
TxIds == Users \cup CancelSlots      \* one query runner per create / cancel call

ZeroRows == [r \in Rows |-> 0]
ZeroProducts == [p \in Products |-> 0]

RECURSIVE SumSeq(_)
SumSeq(s) == IF s = <<>> THEN 0 ELSE Head(s) + SumSeq(Tail(s))

\* ------------------------------------------------------- CouponsService
\* DiscountType and CouponStatus enums
PERCENTAGE == "percentage"
FIXED_AMOUNT == "fixed_amount"
COUPON_ACTIVE == "coupon_active"
COUPON_INACTIVE == "coupon_inactive"
COUPON_EXPIRED == "coupon_expired"

\* A coupons row.  discountValue is a percentage or an amount in cents,
\* minOrderAmount is in cents, the dates are clock values (NullDate: none),
\* the applicable lists are sets (empty: no restriction).
Coupon(discountType, discountValue, freeShipping) ==
  [status |-> COUPON_ACTIVE,
   discountType |-> discountType,
   discountValue |-> discountValue,
   minOrderAmount |-> 0,
   maxUses |-> 0,
   usedCount |-> 0,
   maxUsesPerUser |-> 0,
   validFrom |-> NullDate,
   validUntil |-> NullDate,
   applicableCategories |-> {},
   applicableProducts |-> {},
   freeShipping |-> freeShipping]

\* The coupons the shop has issued.
CouponTable ==
  [code \in {"SAVE10", "BIG150", "FREESHIP", "OLD", "OFF", "USEDUP", "MIN200",
             "ONLYP2", "ONLYBOOKS", "SOON", "ONCE"} |->
     CASE code = "SAVE10" -> Coupon(PERCENTAGE, 10, FALSE)
       [] code = "BIG150" -> Coupon(FIXED_AMOUNT, 15000, FALSE)
       [] code = "FREESHIP" -> Coupon(FIXED_AMOUNT, 500, TRUE)
       [] code = "OLD" -> [Coupon(PERCENTAGE, 10, FALSE) EXCEPT !.validUntil = -1]
       [] code = "SOON" -> [Coupon(PERCENTAGE, 10, FALSE) EXCEPT !.validFrom = 9]
       [] code = "OFF" -> [Coupon(PERCENTAGE, 10, FALSE) EXCEPT !.status = COUPON_INACTIVE]
       [] code = "USEDUP" ->
            [Coupon(PERCENTAGE, 10, FALSE) EXCEPT !.maxUses = 1, !.usedCount = 1]
       [] code = "MIN200" -> [Coupon(PERCENTAGE, 150, FALSE) EXCEPT !.minOrderAmount = 20000]
       [] code = "ONLYP2" -> [Coupon(FIXED_AMOUNT, 500, FALSE) EXCEPT !.applicableProducts = {"p2"}]
       [] code = "ONLYBOOKS" ->
            [Coupon(FIXED_AMOUNT, 500, FALSE) EXCEPT !.applicableCategories = {"books"}]
       [] OTHER -> [Coupon(FIXED_AMOUNT, 500, FALSE) EXCEPT !.maxUsesPerUser = 1]]

\* code.toUpperCase(), on the codes a caller may send
toUpperCase(code) ==
  CASE code = "save10" -> "SAVE10"
    [] code = "freeship" -> "FREESHIP"
    [] OTHER -> code

\* What a CouponsService call gives back: the error it threw ("none" when it
\* returned) and the value returned.
CouponError(error) ==
  [error |-> error, discount |-> 0, couponId |-> NullText, freeShipping |-> FALSE]

\* findByCode: the error the lookup and validity checks throw, "none" if none
CouponsService_findByCode(code) ==
  LET key == toUpperCase(code)
  IN IF key \notin DOMAIN coupons THEN "Invalid coupon code"
     ELSE LET coupon == coupons[key]
          IN IF coupon.status # COUPON_ACTIVE THEN "Coupon is not active"
             ELSE IF coupon.validFrom # NullDate /\ now < coupon.validFrom
               THEN "Coupon is not yet valid"
             ELSE IF coupon.validUntil # NullDate /\ now > coupon.validUntil
               THEN "Coupon has expired"
             ELSE IF coupon.maxUses > 0 /\ coupon.usedCount >= coupon.maxUses
               THEN "Coupon usage limit reached"
             ELSE "none"

\* A mutation of the last line of applyCoupon: the discount is not clamped.
Clamp_none(discount, subtotal) == discount
\* Math.min(discount, subtotal)
Clamp(discount, subtotal) == IF discount < subtotal THEN discount ELSE subtotal

\* CouponsService.applyCoupon(code, subtotal, userId, productIds, categoryIds).
\* subtotal is in cents; the discount returned is in hundredths of a cent
\* (subtotal * (discountValue / 100) need not be a whole number of cents).
\* getUserCouponUses selects on order.couponId, a column the orders table
\* does not have: the query fails.
CouponsService_applyCoupon(code, subtotal, userId, productIds, categoryIds) ==
  IF CouponsService_findByCode(code) # "none"
  THEN CouponError(CouponsService_findByCode(code))
  ELSE LET coupon == coupons[toUpperCase(code)]
       IN IF coupon.minOrderAmount # 0 /\ subtotal < coupon.minOrderAmount
            THEN CouponError("Minimum order amount required")
          ELSE IF coupon.maxUsesPerUser > 0
            THEN CouponError("query failed")
          ELSE IF /\ coupon.applicableCategories # {}
                  /\ categoryIds \cap coupon.applicableCategories = {}
            THEN CouponError("Coupon not applicable to these products")
          ELSE IF /\ coupon.applicableProducts # {}
                  /\ productIds \cap coupon.applicableProducts = {}
            THEN CouponError("Coupon not applicable to these products")
          ELSE LET discount == IF coupon.discountType = PERCENTAGE
                               THEN subtotal * coupon.discountValue
                               ELSE coupon.discountValue * 100
               IN [error |-> "none",
                   discount |-> Clamp(discount, subtotal * 100),
                   couponId |-> toUpperCase(code),
                   freeShipping |-> coupon.freeShipping]

\* incrementUsage: couponRepository.increment({id}, "usedCount", 1)
incrementUsage(couponId) ==
  /\ Tick
  /\ UNCHANGED probe
  /\ couponId \in DOMAIN coupons
  /\ coupons' = [coupons EXCEPT ![couponId].usedCount = @ + 1]
  /\ last' = Outcome("incrementUsage", "ok", 0)
  /\ UNCHANGED <<db, rowLock, tx, cr, ca, us, ad>>

\* ------------------------------------------------------------ transactions
NoPending == [dStock |-> ZeroRows, dSold |-> ZeroProducts]

\* manager.increment / manager.decrement(entity, {id}, column, n) inside the
\* transaction t: UPDATE .. SET column = column + n, pending until commit.
PendingStock(t, row, n) ==
  [tx EXCEPT ![t].dStock[row] = @ + n]
PendingSold(t, productId, n) ==
  [tx EXCEPT ![t].dSold[productId] = @ + n]

CanLockRow(t, row) == rowLock[row] \in {NoTx, t}
ReleaseRows(t) == [r \in Rows |-> IF rowLock[r] = t THEN NoTx ELSE rowLock[r]]

\* A mutation of rollbackTransaction: the statements were not in a
\* transaction, so what was written stays written.
rollbackTransaction_keepsWrites(t) ==
  /\ stock' = [r \in Rows |-> stock[r] + tx[t].dStock[r]]
  /\ soldCount' = [p \in Products |-> soldCount[p] + tx[t].dSold[p]]
  /\ UNCHANGED <<productStatus, cart, orders, payments>>
  /\ tx' = [tx EXCEPT ![t] = NoPending]
  /\ rowLock' = ReleaseRows(t)

\* queryRunner.rollbackTransaction(): every pending write is discarded and
\* the row locks are released.
rollbackTransaction(t) ==
  /\ UNCHANGED db
  /\ tx' = [tx EXCEPT ![t] = NoPending]
  /\ rowLock' = ReleaseRows(t)

\* The stock/soldCount part of queryRunner.commitTransaction().
CommittedStock(t) == [r \in Rows |-> stock[r] + tx[t].dStock[r]]
CommittedSold(t) == [p \in Products |-> soldCount[p] + tx[t].dSold[p]]

\* ------------------------------------------------- OrdersService.create
CreateIdle ==
  [pc |-> "idle", couponCode |-> NullText, cartItems |-> <<>>, i |-> 0,
   orderItems |-> <<>>, subtotal |-> 0, order |-> <<>>]
CreateDone == [CreateIdle EXCEPT !.pc = "done"]
\* stock decrements the call has issued so far
CreateProgress(u) == IF cr[u].pc = "line" THEN cr[u].i - 1 ELSE cr[u].i
CreateFailures == {"empty", "unavailable", "insufficient", "collision", "storage"}

\* A mutation of the cart read: the stock compared is always the product's.
CartItem_productStock(line, stockCol, statusCol) ==
  [productId |-> line.productId,
   variantId |-> line.variantId,
   quantity |-> line.quantity,
   status |-> statusCol[line.productId],
   price |-> IF line.variantId # NoVariant THEN Price[line.variantId]
                                           ELSE Price[line.productId],
   stock |-> stockCol[line.productId]]
\* find(CartItem, {where: {userId}, relations: ["product", "variant"]}):
\* each line with the product and variant columns as committed at the read.
CartItem(line, stockCol, statusCol) ==
  LET hasVariant == line.variantId # NoVariant
  IN [productId |-> line.productId,
      variantId |-> line.variantId,
      quantity |-> line.quantity,
      status |-> statusCol[line.productId],
      price |-> IF hasVariant THEN Price[line.variantId]
                              ELSE Price[line.productId],
      stock |-> IF hasVariant THEN stockCol[line.variantId]
                              ELSE stockCol[line.productId]]
FindCartItems(userId) ==
  [k \in 1..Len(cart[userId]) |-> CartItem(cart[userId][k], stock, productStatus)]

\* A mutation of the decremented row: always the product's.
StockRow_product(item) == item.productId
\* The row whose stock a line or an order item counts against.
StockRow(item) ==
  IF item.variantId # NoVariant THEN item.variantId ELSE item.productId

\* orderItems.push({...}) for one cart line
OrderItem(item) ==
  [productId |-> item.productId,
   variantId |-> item.variantId,
   unitPrice |-> item.price,
   quantity |-> item.quantity,
   total |-> item.price * item.quantity]

\* private applyCoupon: the stub returns 0
applyCoupon(couponCode, subtotal) == 0

Tax(subtotal) == Round2(subtotal * TAX_RATE)
FinalShippingCost(subtotal) ==
  IF subtotal >= FREE_SHIPPING_THRESHOLD THEN 0 ELSE SHIPPING_COST
\* const total = Math.round((subtotal + tax + shippingCost - discount) * 100) / 100
\* where shippingCost is the configured flat cost, not finalShippingCost
Total(subtotal, tax, discount) ==
  Round2((subtotal + tax + SHIPPING_COST - discount) * 100)

NewOrder(orderNumber, userId, orderItems, subtotal, discount) ==
  [orderNumber |-> orderNumber,
   userId |-> userId,
   status |-> PENDING,
   subtotal |-> subtotal,
   tax |-> Tax(subtotal),
   shippingCost |-> FinalShippingCost(subtotal),
   discount |-> discount,
   total |-> Total(subtotal, Tax(subtotal), discount),
   items |-> orderItems,
   notes |-> NullText,
   trackingNumber |-> NullText,
   shippedAt |-> NullDate,
   deliveredAt |-> NullDate,
   cancelledAt |-> NullDate,
   cancellationReason |-> NullText]

\* A mutation of the payment record: it is stored without the amount.
NewPayment_noAmount(orderId, amount) ==
  [orderId |-> orderId, amount |-> 0, paymentStatus |-> PAY_PENDING,
   intent |-> FALSE, refundedAt |-> NullDate, refundReason |-> NullText]
NewPayment(orderId, amount) ==
  [orderId |-> orderId, amount |-> amount, paymentStatus |-> PAY_PENDING,
   intent |-> FALSE, refundedAt |-> NullDate, refundReason |-> NullText]

\* catch (error) { rollbackTransaction(); throw error }
CreateFail(u, result) ==
  /\ rollbackTransaction(u)
  /\ cr' = [cr EXCEPT ![u] = CreateDone]
  /\ last' = Outcome("create", result, CreateProgress(u))
  /\ UNCHANGED <<ca, us, ad, clock>>

\* `ORD-${Date.now()}-${uuidv4().slice(0, 8)}` when it is a number that no
\* stored order has: one per user and order of that user.
FreshOrderNumber(u) ==
  <<u, Cardinality({o \in DOMAIN orders : orders[o].userId = u}) + 1>>

\* startTransaction and the cart read; "Cart is empty"
Create_FindCart(u, couponCode) ==
  /\ cr[u].pc = "idle"
  /\ StartCall
  /\ LET cartItems == FindCartItems(u)
     IN IF Len(cartItems) = 0
        THEN /\ cr' = [cr EXCEPT ![u] = CreateDone]
             /\ last' = Outcome("create", "empty", 0)
        ELSE /\ cr' = [cr EXCEPT ![u] =
                        [CreateIdle EXCEPT !.pc = "line", !.couponCode = couponCode,
                                           !.cartItems = cartItems, !.i = 1]]
             /\ UNCHANGED last
  /\ UNCHANGED <<db, rowLock, tx, ca, us, ad>>

\* One pass of the loop body up to the stock decrement: availability check,
\* price, stock check against the columns read with the cart, decrement.
Create_Line(u) ==
  /\ cr[u].pc = "line"
  /\ LET item == cr[u].cartItems[cr[u].i]
         itemTotal == item.price * item.quantity
         row == StockRow(item)
     IN IF item.status # ACTIVE
        THEN CreateFail(u, "unavailable")
        ELSE IF item.quantity > item.stock
        THEN CreateFail(u, "insufficient")
        ELSE \/ /\ CanLockRow(u, row)
                /\ rowLock' = [rowLock EXCEPT ![row] = u]
                /\ tx' = PendingStock(u, row, -item.quantity)
                /\ cr' = [cr EXCEPT
                     ![u].pc = "sold",
                     ![u].subtotal = @ + itemTotal,
                     ![u].orderItems = Append(@, OrderItem(item))]
                /\ UNCHANGED <<db, ca, us, ad, last, clock>>
             \/ CreateFail(u, "storage")

\* increment(Product, {id: productId}, "soldCount", quantity); next line
Create_SoldCount(u) ==
  /\ cr[u].pc = "sold"
  /\ LET item == cr[u].cartItems[cr[u].i]
     IN \/ /\ CanLockRow(u, item.productId)
           /\ rowLock' = [rowLock EXCEPT ![item.productId] = u]
           /\ tx' = PendingSold(u, item.productId, item.quantity)
           /\ cr' = [cr EXCEPT
                ![u].pc = IF cr[u].i < Len(cr[u].cartItems) THEN "line" ELSE "save",
                ![u].i = IF cr[u].i < Len(cr[u].cartItems) THEN @ + 1 ELSE @]
           /\ UNCHANGED <<db, ca, us, ad, last, clock>>
        \/ CreateFail(u, "storage")

\* createOrderDto.couponCode ? await this.applyCoupon(..) : 0
Discount(couponCode, subtotal) ==
  IF couponCode # NullText THEN applyCoupon(couponCode, subtotal) ELSE 0

\* totals, then the order, its items, the payment and the cart delete, all
\* through queryRunner.manager.  The generated order number is either one no
\* stored order has, or that of a stored order: then the insert breaks the
\* unique index on order_number and throws.
Create_Save(u) ==
  /\ cr[u].pc = "save"
  /\ \/ /\ LET discount == Discount(cr[u].couponCode, cr[u].subtotal)
               order == NewOrder(FreshOrderNumber(u), u, cr[u].orderItems,
                                 cr[u].subtotal, discount)
           IN cr' = [cr EXCEPT ![u].pc = "commit",
                               ![u].order = <<order>>]
        /\ UNCHANGED <<db, rowLock, tx, ca, us, ad, last, clock>>
     \/ /\ orders # <<>>
        /\ CreateFail(u, "collision")
     \/ CreateFail(u, "storage")

\* commitTransaction(), then the order is read back and returned
Create_Commit(u) ==
  /\ cr[u].pc = "commit"
  /\ \/ /\ stock' = CommittedStock(u)
        /\ soldCount' = CommittedSold(u)
        /\ orders' = Append(orders, cr[u].order[1])
        /\ payments' = Append(payments,
                              NewPayment(Len(orders) + 1, cr[u].order[1].total))
        /\ cart' = [cart EXCEPT ![u] = <<>>]
        /\ tx' = [tx EXCEPT ![u] = NoPending]
        /\ rowLock' = ReleaseRows(u)
        /\ cr' = [cr EXCEPT ![u] = CreateDone]
        /\ last' = Outcome("create", "ok", CreateProgress(u))
        /\ UNCHANGED <<productStatus, ca, us, ad, clock>>
     \/ CreateFail(u, "storage")

create(u, couponCode) ==
  \/ Create_FindCart(u, couponCode)
  \/ Create_Line(u)
  \/ Create_SoldCount(u)
  \/ Create_Save(u)
  \/ Create_Commit(u)


\* The row a transaction's next statement will write, if it has one: an
\* UPDATE waits while another transaction holds that row's lock.
NoRow == "norow"
WantedRow(t) ==
  IF t \in Users
  THEN IF cr[t].pc = "line"
       THEN LET item == cr[t].cartItems[cr[t].i]
            IN IF item.status = ACTIVE /\ item.quantity <= item.stock
               THEN StockRow(item) ELSE NoRow
       ELSE IF cr[t].pc = "sold" THEN cr[t].cartItems[cr[t].i].productId
       ELSE NoRow
  ELSE IF ca[t].pc = "stock"
       THEN LET item == ca[t].order[1].items[ca[t].i]
            IN IF item.variantId # NoVariant THEN item.variantId ELSE item.productId
       ELSE IF ca[t].pc = "sold" THEN ca[t].order[1].items[ca[t].i].productId
       ELSE NoRow
WaitsFor(t, holder) ==
  /\ WantedRow(t) # NoRow
  /\ holder # t
  /\ rowLock[WantedRow(t)] = holder

\* ------------------------------------------------- OrdersService.findOne
\* The order with its items and payments, or none: the first element of the
\* result is the order, the second the ids of its payments.  With a userId
\* the query adds "order.userId = :userId".
AnyUser == "anyuser"
OrderIds == 1..Cardinality(Users)
PaymentsOf(orderId) ==
  {pid \in DOMAIN payments : payments[pid].orderId = orderId}
\* A mutation of findOne: each item takes the price of the joined product
\* or variant as it is now, the sale price when there is one.
findOne_livePrice(orderId, userId) ==
  IF /\ orderId \in DOMAIN orders
     /\ userId # AnyUser => orders[orderId].userId = userId
  THEN <<[orders[orderId] EXCEPT !.items =
            [k \in DOMAIN orders[orderId].items |->
               LET item == orders[orderId].items[k]
                   live == IF SalePrice[StockRow(item)] # NullPrice
                           THEN SalePrice[StockRow(item)] ELSE Price[StockRow(item)]
               IN [item EXCEPT !.unitPrice = live, !.total = live * item.quantity]]]>>
  ELSE <<>>
\* A mutation of findOne: the owner is not part of the query.
findOne_anyOwner(orderId, userId) ==
  IF orderId \in DOMAIN orders THEN <<orders[orderId]>> ELSE <<>>
\* getOne() of the query on order.id, and on order.userId when one is given
findOne(orderId, userId) ==
  IF /\ orderId \in DOMAIN orders
     /\ userId # AnyUser => orders[orderId].userId = userId
  THEN <<orders[orderId]>>
  ELSE <<>>

\* ------------------------------------------------- OrdersService.cancel
CancelIdle ==
  [pc |-> "idle", orderId |-> 0, reason |-> NullText, order |-> <<>>,
   payments |-> <<>>, refund |-> <<>>, i |-> 0]
\* stock increments the call has issued so far
CancelProgress(c) == IF ca[c].pc = "stock" THEN ca[c].i - 1 ELSE ca[c].i
Reasons == {NullText, "changed mind"}
\* reason || ""
ReasonOrEmpty(reason) == IF reason = NullText THEN "" ELSE reason

\* A mutation of the status check of cancel: no check at all.
Cancellable_any(status) == TRUE
\* [PENDING, CONFIRMED].includes(order.status)
Cancellable(status) == status \in {PENDING, CONFIRMED}

\* The order row (a payment row) is write-locked by a cancel transaction
\* from its save until that transaction ends.
OrderLocked(orderId) ==
  \E c \in CancelSlots :
    ca[c].pc \in {"savePayment", "commit"} /\ ca[c].orderId = orderId
PaymentLocked(pid) ==
  \E c \in CancelSlots : ca[c].pc = "commit" /\ ca[c].refund = <<pid>>

CancelFail(c, result) ==
  /\ rollbackTransaction(c)
  /\ ca' = [ca EXCEPT ![c] = CancelIdle]
  /\ last' = Outcome("cancel", result, CancelProgress(c))
  /\ UNCHANGED <<cr, us, ad, clock>>

\* findOne(orderId, userId) and the status check, before the transaction
Cancel_FindOne(c, userId, orderId, reason) ==
  /\ ca[c].pc = "idle"
  /\ StartCall
  /\ LET found == findOne(orderId, userId)
     IN IF found = <<>>
        THEN /\ last' = Outcome("cancel", "notfound", 0)
             /\ UNCHANGED ca
        ELSE IF ~Cancellable(found[1].status)
        THEN /\ last' = Outcome("cancel", "notcancellable", 0)
             /\ UNCHANGED ca
        ELSE /\ ca' = [ca EXCEPT ![c] =
                        [CancelIdle EXCEPT
                           !.pc = "stock", !.orderId = orderId, !.reason = reason,
                           !.order = found,
                           !.payments = [pid \in PaymentsOf(orderId) |-> payments[pid]],
                           !.i = 1]]
             /\ UNCHANGED last
  /\ UNCHANGED <<db, rowLock, tx, cr, us, ad>>

\* A mutation of the restored row: the variant's stock goes to the product.
RestoreRow_product(item) == item.productId
\* if (item.variant) increment(ProductVariant, ..) else increment(Product, ..)
RestoreRow(item) == StockRow(item)

\* increment(.., "stock", item.quantity)
Cancel_RestoreStock(c) ==
  /\ ca[c].pc = "stock"
  /\ LET item == ca[c].order[1].items[ca[c].i]
         row == RestoreRow(item)
     IN \/ /\ CanLockRow(c, row)
           /\ rowLock' = [rowLock EXCEPT ![row] = c]
           /\ tx' = PendingStock(c, row, item.quantity)
           /\ ca' = [ca EXCEPT ![c].pc = "sold"]
           /\ UNCHANGED <<db, cr, us, ad, last, clock>>
        \/ CancelFail(c, "storage")

\* decrement(Product, {id: item.productId}, "soldCount", item.quantity)
Cancel_ReverseSold(c) ==
  /\ ca[c].pc = "sold"
  /\ LET items == ca[c].order[1].items
         item == items[ca[c].i]
     IN \/ /\ CanLockRow(c, item.productId)
           /\ rowLock' = [rowLock EXCEPT ![item.productId] = c]
           /\ tx' = PendingSold(c, item.productId, -item.quantity)
           /\ ca' = [ca EXCEPT
                ![c].pc = IF ca[c].i < Len(items) THEN "stock" ELSE "saveOrder",
                ![c].i = IF ca[c].i < Len(items) THEN @ + 1 ELSE @]
           /\ UNCHANGED <<db, cr, us, ad, last, clock>>
        \/ CancelFail(c, "storage")

\* order.status = CANCELLED; cancelledAt = new Date(); cancellationReason =
\* reason || ""; manager.save(order)
Cancel_SaveOrder(c) ==
  /\ ca[c].pc = "saveOrder"
  /\ \/ /\ ~OrderLocked(ca[c].orderId)
        /\ ca' = [ca EXCEPT
             ![c].order = <<[@[1] EXCEPT
                 !.status = CANCELLED,
                 !.cancelledAt = now,
                 !.cancellationReason = ReasonOrEmpty(ca[c].reason)]>>,
             ![c].pc =
               IF \E pid \in DOMAIN ca[c].payments :
                    ca[c].payments[pid].paymentStatus = PAY_COMPLETED
               THEN "savePayment" ELSE "commit"]
        /\ UNCHANGED <<db, rowLock, tx, cr, us, ad, last, clock>>
     \/ CancelFail(c, "storage")

\* order.payments.find(p => p.paymentStatus === COMPLETED): the payments
\* come in no stated order, so any completed one may be the first found.
Cancel_SavePayment(c) ==
  /\ ca[c].pc = "savePayment"
  /\ \/ \E pid \in DOMAIN ca[c].payments :
          /\ ca[c].payments[pid].paymentStatus = PAY_COMPLETED
          /\ ~PaymentLocked(pid)
          /\ ca' = [ca EXCEPT
               ![c].payments[pid] = [@ EXCEPT
                   !.paymentStatus = PAY_REFUNDED,
                   !.refundedAt = now,
                   !.refundReason = ReasonOrEmpty(ca[c].reason)],
               ![c].refund = <<pid>>,
               ![c].pc = "commit"]
          /\ UNCHANGED <<db, rowLock, tx, cr, us, ad, last, clock>>
     \/ CancelFail(c, "storage")

\* commitTransaction(), then findOne(orderId) is returned
Cancel_Commit(c) ==
  /\ ca[c].pc = "commit"
  /\ \/ /\ stock' = CommittedStock(c)
        /\ soldCount' = CommittedSold(c)
        /\ orders' = [orders EXCEPT ![ca[c].orderId] = ca[c].order[1]]
        /\ payments' =
             [pid \in DOMAIN payments |->
                IF ca[c].refund = <<pid>> THEN ca[c].payments[pid]
                                          ELSE payments[pid]]
        /\ tx' = [tx EXCEPT ![c] = NoPending]
        /\ rowLock' = ReleaseRows(c)
        /\ ca' = [ca EXCEPT ![c] = CancelIdle]
        /\ last' = Outcome("cancel", "ok", CancelProgress(c))
        /\ UNCHANGED <<productStatus, cart, cr, us, ad, clock>>
     \/ CancelFail(c, "storage")

cancel(c) ==
  \/ \E userId \in Users, orderId \in OrderIds, reason \in Reasons :
       Cancel_FindOne(c, userId, orderId, reason)
  \/ Cancel_RestoreStock(c)
  \/ Cancel_ReverseSold(c)
  \/ Cancel_SaveOrder(c)
  \/ Cancel_SavePayment(c)
  \/ Cancel_Commit(c)


\* ------------------------------------------- OrdersService.updateStatus
StatusIdle == [pc |-> "idle", orderId |-> 0, from |-> "none", order |-> <<>>]

\* The status DTO's optional trackingNumber and notes
AdditionalData ==
  { [trackingNumber |-> NullText, notes |-> NullText],
    [trackingNumber |-> "TRK-1", notes |-> "leave at door"] }

\* const statusTransitions inside updateStatus
statusTransitions ==
  [s \in OrderStatus |->
     CASE s = PENDING -> {CONFIRMED, CANCELLED}
       [] s = CONFIRMED -> {PROCESSING, CANCELLED}
       [] s = PROCESSING -> {SHIPPED, CANCELLED}
       [] s = SHIPPED -> {DELIVERED}
       [] s = DELIVERED -> {RETURNED}
       [] s = CANCELLED -> {}
       [] s = REFUNDED -> {}
       [] s = RETURNED -> {}]

\* A mutation of the guard: && written as a comparison that never rejects a
\* move out of a terminal status.
TransitionRejected_lax(current, status) ==
  /\ status \notin statusTransitions[current]
  /\ current # status
  /\ statusTransitions[current] # {}
\* !statusTransitions[order.status].includes(status) && order.status !== status
TransitionRejected(current, status) ==
  /\ status \notin statusTransitions[current]
  /\ current # status

\* The entity after the assignments that follow the check.
UpdatedOrder(order, status, additionalData) ==
  [order EXCEPT
     !.status = status,
     !.trackingNumber = IF additionalData.trackingNumber # NullText
                        THEN additionalData.trackingNumber ELSE @,
     !.notes = IF additionalData.notes # NullText
               THEN additionalData.notes ELSE @,
     !.shippedAt = IF status = SHIPPED THEN now' ELSE @,
     !.deliveredAt = IF status = DELIVERED THEN now' ELSE @]

\* findOne(orderId), the transition check and the assignments
UpdateStatus_FindOne(orderId, status, additionalData) ==
  /\ us.pc = "idle"
  /\ StartCall
  /\ LET found == findOne(orderId, AnyUser)
     IN IF found = <<>>
        THEN /\ last' = Outcome("updateStatus", "notfound", orderId)
             /\ UNCHANGED us
        ELSE IF TransitionRejected(found[1].status, status)
        THEN /\ last' = Outcome("updateStatus", "invalid", orderId)
             /\ UNCHANGED us
        ELSE /\ us' = [pc |-> "save", orderId |-> orderId,
                      from |-> found[1].status,
                      order |-> <<UpdatedOrder(found[1], status, additionalData)>>]
             /\ UNCHANGED last
  /\ UNCHANGED <<db, rowLock, tx, cr, ca, ad>>

\* orderRepository.save(order): the row takes the entity's columns
UpdateStatus_Save ==
  /\ us.pc = "save"
  /\ \/ /\ ~OrderLocked(us.orderId)
        /\ orders' = [orders EXCEPT ![us.orderId] = us.order[1]]
        /\ last' = Outcome("updateStatus", "ok", us.orderId)
        /\ UNCHANGED <<stock, soldCount, productStatus, cart, payments>>
     \/ /\ last' = Outcome("updateStatus", "storage", us.orderId)
        /\ UNCHANGED db
  /\ us' = StatusIdle
  /\ UNCHANGED <<rowLock, tx, cr, ca, ad, clock>>

updateStatus ==
  \/ \E orderId \in OrderIds, status \in OrderStatus, additionalData \in AdditionalData :
       UpdateStatus_FindOne(orderId, status, additionalData)
  \/ UpdateStatus_Save

\* ------------------------------------- AdminService.updateOrderStatus
\* validateOrderStatusTransition throws unless canTransition
AdminUpdate_FindOne(orderId, status) ==
  /\ ad.pc = "idle"
  /\ StartCall
  /\ LET found == findOne(orderId, AnyUser)
     IN IF found = <<>>
        THEN /\ last' = Outcome("updateOrderStatus", "notfound", orderId)
             /\ UNCHANGED ad
        ELSE IF ~canTransition(found[1].status, status)
        THEN /\ last' = Outcome("updateOrderStatus", "invalid", orderId)
             /\ UNCHANGED ad
        ELSE /\ ad' = [pc |-> "save", orderId |-> orderId,
                      from |-> found[1].status,
                      order |-> <<[found[1] EXCEPT !.status = status]>>]
             /\ UNCHANGED last
  /\ UNCHANGED <<db, rowLock, tx, cr, ca, us>>

AdminUpdate_Save ==
  /\ ad.pc = "save"
  /\ \/ /\ ~OrderLocked(ad.orderId)
        /\ orders' = [orders EXCEPT ![ad.orderId] = ad.order[1]]
        /\ last' = Outcome("updateOrderStatus", "ok", ad.orderId)
        /\ UNCHANGED <<stock, soldCount, productStatus, cart, payments>>
     \/ /\ last' = Outcome("updateOrderStatus", "storage", ad.orderId)
        /\ UNCHANGED db
  /\ ad' = StatusIdle
  /\ UNCHANGED <<rowLock, tx, cr, ca, us, clock>>

updateOrderStatus ==
  \/ \E orderId \in OrderIds, status \in OrderStatus :
       AdminUpdate_FindOne(orderId, status)
  \/ AdminUpdate_Save


\* ------------------------------------------------------- PaymentsService
\* Each of these runs find, save and update as statements of their own; the
\* model takes the three together at the moment the rows are free.
OrderOf(pid) == payments[pid].orderId
WithIntent == {pid \in DOMAIN payments : payments[pid].intent}
FreeRows(pid) == ~PaymentLocked(pid) /\ ~OrderLocked(OrderOf(pid))
PaymentFrame == UNCHANGED <<stock, soldCount, productStatus, cart,
                            rowLock, tx, cr, ca, us, ad>>

\* orderRepository.update(orderId, {status})
SetOrderStatus(orderId, status) == [orders EXCEPT ![orderId].status = status]

\* createPaymentIntent: the order must be PENDING; the intent is new, so a
\* payment row is created for it
createPaymentIntent(orderId) ==
  /\ StartCall
  /\ orderId \in DOMAIN orders
  /\ orders[orderId].status = PENDING
  /\ payments' = Append(payments,
       [NewPayment(orderId, orders[orderId].total) EXCEPT !.intent = TRUE])
  /\ UNCHANGED orders
  /\ last' = Outcome("createPaymentIntent", "ok", orderId)
  /\ PaymentFrame

\* confirmPayment when Stripe reports the intent as succeeded
confirmPayment(pid) ==
  /\ StartCall
  /\ pid \in WithIntent
  /\ FreeRows(pid)
  /\ payments' = [payments EXCEPT ![pid].paymentStatus = PAY_COMPLETED]
  /\ orders' = SetOrderStatus(OrderOf(pid), CONFIRMED)
  /\ last' = Outcome("confirmPayment", "ok", pid)
  /\ PaymentFrame

\* webhook payment_intent.succeeded
handlePaymentSuccess(pid) ==
  /\ StartCall
  /\ pid \in WithIntent
  /\ FreeRows(pid)
  /\ payments' = [payments EXCEPT ![pid].paymentStatus = PAY_COMPLETED]
  /\ orders' = SetOrderStatus(OrderOf(pid), CONFIRMED)
  /\ last' = Outcome("handlePaymentSuccess", "ok", pid)
  /\ PaymentFrame

\* webhook payment_intent.payment_failed
handlePaymentFailure(pid) ==
  /\ StartCall
  /\ pid \in WithIntent
  /\ ~PaymentLocked(pid)
  /\ payments' = [payments EXCEPT ![pid].paymentStatus = PAY_FAILED]
  /\ UNCHANGED orders
  /\ last' = Outcome("handlePaymentFailure", "ok", pid)
  /\ PaymentFrame

\* webhook charge.refunded
handleRefund(pid) ==
  /\ StartCall
  /\ pid \in WithIntent
  /\ FreeRows(pid)
  /\ payments' = [payments EXCEPT ![pid].paymentStatus = PAY_REFUNDED,
                                  ![pid].refundedAt = now']
  /\ orders' = SetOrderStatus(OrderOf(pid), REFUNDED)
  /\ last' = Outcome("handleRefund", "ok", pid)
  /\ PaymentFrame

\* createRefund when the order has a COMPLETED payment and Stripe accepts
createRefund(orderId, reason) ==
  /\ StartCall
  /\ orderId \in DOMAIN orders
  /\ \E pid \in PaymentsOf(orderId) :
       /\ payments[pid].paymentStatus = PAY_COMPLETED
       /\ FreeRows(pid)
       /\ payments' = [payments EXCEPT ![pid].paymentStatus = PAY_REFUNDED,
                                       ![pid].refundedAt = now',
                                       ![pid].refundReason = reason]
  /\ orders' = SetOrderStatus(orderId, REFUNDED)
  /\ last' = Outcome("createRefund", "ok", orderId)
  /\ PaymentFrame

\* ------------------------------------------------------------ behaviours
NoProbe == [currentStatus |-> PENDING, newStatus |-> PENDING,
            applied |-> FALSE, result |-> FALSE]

Line(productId, variantId, quantity) ==
  [productId |-> productId, variantId |-> variantId, quantity |-> quantity]

\* The carts the two users hold when checkout begins.
Carts1 ==
  { <<Line("p1", NoVariant, 1)>>,
    <<Line("p1", NoVariant, 1), Line("p2", NoVariant, 2)>> }
Carts2 ==
  { <<>>,
    <<Line("p2", NoVariant, 2)>>,
    <<Line("p2", NoVariant, 2), Line("p1", "v1", 1)>> }

Init ==
  /\ stock \in {[r \in Rows |-> n] : n \in 1..MaxStock}
  /\ soldCount = ZeroProducts
  /\ productStatus \in {ps \in [Products -> {ACTIVE, INACTIVE}] : ps["p1"] = ACTIVE}
  /\ cart \in {c \in [Users -> Carts1 \cup Carts2] :
                 c["u1"] \in Carts1 /\ c["u2"] \in Carts2}
  /\ orders = <<>>
  /\ payments = <<>>
  /\ rowLock = [r \in Rows |-> NoTx]
  /\ tx = [t \in TxIds |-> NoPending]
  /\ cr = [u \in Users |-> CreateIdle]
  /\ ca = [c \in CancelSlots |-> CancelIdle]
  /\ us = StatusIdle
  /\ ad = StatusIdle
  /\ last = NoCall
  /\ now = 0
  /\ callsLeft = MaxCalls
  /\ probe = NoProbe
  /\ coupons = CouponTable

Next ==
  \/ \E u \in Users : create(u, NullText)
  \/ \E c \in CancelSlots : cancel(c)
  \/ \E orderId \in OrderIds : createPaymentIntent(orderId)
  \/ \E pid \in DOMAIN payments : handlePaymentSuccess(pid)

Spec == Init /\ [][Next]_vars

\* One order's life.  The behaviours start either where a checkout has just
\* committed (the buyer's cart is empty, the order is PENDING with its
\* PENDING payment, stock and soldCount carry the sale) or where four
\* updateStatus calls have since taken that order to DELIVERED.
Seeds ==
  { <<"u1", <<Line("p1", NoVariant, 1)>>, PENDING>>,
    <<"u2", <<Line("p2", NoVariant, 2), Line("p1", "v1", 1)>>, PENDING>>,
    <<"u1", <<Line("p1", NoVariant, 1)>>, DELIVERED>> }
SeedItems(lines) ==
  [k \in 1..Len(lines) |->
     OrderItem(CartItem(lines[k], [r \in Rows |-> MaxStock],
                        [p \in Products |-> ACTIVE]))]
Quantity(items, row) ==
  SumSeq([k \in 1..Len(items) |->
            IF StockRow(items[k]) = row THEN items[k].quantity ELSE 0])
QuantitySold(items, productId) ==
  SumSeq([k \in 1..Len(items) |->
            IF items[k].productId = productId THEN items[k].quantity ELSE 0])
Subtotal(items) == SumSeq([k \in 1..Len(items) |-> items[k].total])

InitLifecycle ==
  \E seed \in Seeds :
    LET buyer == seed[1]
        items == SeedItems(seed[2])
        delivered == seed[3] = DELIVERED
        created == NewOrder(<<buyer, 1>>, buyer, items, Subtotal(items),
                            Discount(NullText, Subtotal(items)))
        order == IF delivered
                 THEN [created EXCEPT !.status = DELIVERED,
                                      !.shippedAt = 4, !.deliveredAt = 5]
                 ELSE created
    IN /\ stock = [r \in Rows |-> MaxStock - Quantity(items, r)]
       /\ soldCount = [p \in Products |-> QuantitySold(items, p)]
       /\ productStatus = [p \in Products |-> ACTIVE]
       /\ cart = [u \in Users |-> <<>>]
       /\ orders = <<order>>
       /\ payments = <<NewPayment(1, order.total)>>
       /\ rowLock = [r \in Rows |-> NoTx]
       /\ tx = [t \in TxIds |-> NoPending]
       /\ cr = [u \in Users |-> CreateDone]
       /\ ca = [c \in CancelSlots |-> CancelIdle]
       /\ us = StatusIdle
       /\ ad = StatusIdle
       /\ last = IF delivered THEN Outcome("updateStatus", "ok", 1)
                              ELSE Outcome("create", "ok", Len(items))
       /\ now = IF delivered THEN 5 ELSE 1
       /\ callsLeft = MaxUpdates
       /\ probe = NoProbe
       /\ coupons = CouponTable
  /\ coupons = CouponTable

NextLifecycle ==
  \/ cancel("c1")
  \/ updateStatus
  \/ updateOrderStatus
  \/ \E orderId \in OrderIds : createPaymentIntent(orderId)
  \/ \E pid \in DOMAIN payments : confirmPayment(pid)
  \/ \E pid \in DOMAIN payments : handlePaymentSuccess(pid)
  \/ \E pid \in DOMAIN payments : handlePaymentFailure(pid)
  \/ \E pid \in DOMAIN payments : handleRefund(pid)
  \/ \E orderId \in OrderIds, reason \in Reasons : createRefund(orderId, reason)

SpecLifecycle == InitLifecycle /\ [][NextLifecycle]_vars

\* canTransition on its own: every pair of statuses is given to it once.
InitTransition ==
  /\ probe \in [currentStatus : OrderStatus, newStatus : OrderStatus,
                applied : {FALSE}, result : {FALSE}]
  /\ stock = [r \in Rows |-> MaxStock]
  /\ soldCount = ZeroProducts
  /\ productStatus = [p \in Products |-> ACTIVE]
  /\ cart = [u \in Users |-> <<>>]
  /\ orders = <<>>
  /\ payments = <<>>
  /\ rowLock = [r \in Rows |-> NoTx]
  /\ tx = [t \in TxIds |-> NoPending]
  /\ cr = [u \in Users |-> CreateIdle]
  /\ ca = [c \in CancelSlots |-> CancelIdle]
  /\ us = StatusIdle
  /\ ad = StatusIdle
  /\ last = NoCall
  /\ now = 0
  /\ callsLeft = 0
  /\ coupons = CouponTable

Apply_canTransition ==
  /\ ~probe.applied
  /\ probe' = [probe EXCEPT
       !.applied = TRUE,
       !.result = canTransition(probe.currentStatus, probe.newStatus)]
  /\ UNCHANGED <<db, rowLock, tx, cr, ca, us, ad, last, now, callsLeft, coupons>>

NextTransition == Apply_canTransition

SpecTransition == InitTransition /\ [][NextTransition]_vars

\* -------------------------------------------------------------- properties
\* C1: the stock of every product and of every variant is at least 0 in
\* every state, whatever checkouts and cancellations run concurrently.
StockNeverNegative == \A r \in Rows : stock[r] >= 0

\* round2 of the sum of an order's stored money fields
StoredTotal(order) ==
  Round2((order.subtotal + order.tax + order.shippingCost - order.discount) * 100)
\* C10: every stored order has total = round2(subtotal + tax + shippingCost
\* - discount), computed from the values stored on that same order; an order
\* of subtotal 100.00 has tax 8.00, shippingCost 0 and total 108.00.
TotalMatchesStoredFields ==
  \A o \in DOMAIN orders :
    /\ orders[o].total = StoredTotal(orders[o])
    /\ orders[o].subtotal = 10000 =>
         /\ orders[o].tax = 800
         /\ orders[o].shippingCost = 0
         /\ orders[o].total = 10800

\* A step of the create call of u that ends it with success / with an error.
CreateSucceedsNow(u) ==
  cr[u].pc = "commit" /\ cr'[u].pc = "done" /\ last' = Outcome("create", "ok", cr[u].i)
CreateFailsNow(u) ==
  /\ cr[u].pc # "done" /\ cr'[u].pc = "done"
  /\ last'.op = "create" /\ last'.result \in CreateFailures

\* C2: a create call that fails (empty cart, unavailable product,
\* insufficient stock on any line, also a later one, a storage failure on
\* any write) leaves every stock, every soldCount and the user's cart as
\* they were and stores no order and no payment: no step of the call other
\* than its successful commit changes committed data, and the failing step
\* leaves the call's transaction empty and its row locks released.
CheckoutFailureWritesNothing ==
  [][\A u \in Users :
       /\ (cr'[u] # cr[u] /\ ~CreateSucceedsNow(u)) => UNCHANGED db
       /\ CreateFailsNow(u) =>
            /\ tx'[u] = NoPending
            /\ \A r \in Rows : rowLock'[r] # u]_vars
\* A checkout that failed on a later line, after an earlier line's stock
\* and soldCount writes
CheckoutFailedOnLaterLine ==
  /\ last.op = "create" /\ last.result \in {"insufficient", "unavailable"}
  /\ last.at >= 1
  /\ orders = <<>>

\* C3: every change of an order's status, by any operation, is an edge of
\* the transition table; an order in CANCELLED, REFUNDED or RETURNED never
\* changes status again.
StatusMovesAlongTable ==
  [][\A o \in DOMAIN orders :
       orders'[o].status # orders[o].status =>
         orders'[o].status \in ORDER_STATUS_TRANSITIONS[orders[o].status]]_vars

\* The statuses the transition table gives no successor
TerminalStatus == {CANCELLED, REFUNDED, RETURNED}
\* C4 as stated: canTransition(PENDING, DELIVERED) is false,
\* canTransition(PENDING, CONFIRMED) is true, and canTransition(s, t) is
\* false for every terminal s and every t.
CanTransitionTerminalAlwaysFalse ==
  probe.applied =>
    /\ (probe.currentStatus = PENDING /\ probe.newStatus = DELIVERED) => ~probe.result
    /\ (probe.currentStatus = PENDING /\ probe.newStatus = CONFIRMED) => probe.result
    /\ probe.currentStatus \in TerminalStatus => ~probe.result
\* C4: canTransition(PENDING, DELIVERED) is false, canTransition(PENDING,
\* CONFIRMED) is true, and for every terminal s, canTransition(s, t) is
\* false for every t other than s and true for t = s.
CanTransitionTerminalOnlyToItself ==
  probe.applied =>
    /\ (probe.currentStatus = PENDING /\ probe.newStatus = DELIVERED) => ~probe.result
    /\ (probe.currentStatus = PENDING /\ probe.newStatus = CONFIRMED) => probe.result
    /\ probe.currentStatus \in TerminalStatus =>
         (probe.result <=> probe.newStatus = probe.currentStatus)
\* canTransition was applied to a terminal status and a different status
CanTransitionAppliedToTerminal ==
  /\ probe.applied
  /\ probe.currentStatus = CANCELLED
  /\ probe.newStatus = PENDING
  /\ ~probe.result

\* C5: updateStatus with a target that is neither the current status nor on
\* an edge from it fails with "Cannot transition from X to Y" and leaves
\* the order (status, trackingNumber, notes, timestamps) unchanged.
IllegalUpdateStatusRejected ==
  [][\A o \in DOMAIN orders, s \in OrderStatus, d \in AdditionalData :
       ( /\ callsLeft' < callsLeft
         /\ s # orders[o].status
         /\ s \notin ORDER_STATUS_TRANSITIONS[orders[o].status]
         /\ UpdateStatus_FindOne(o, s, d) )
       => /\ last' = Outcome("updateStatus", "invalid", o)
          /\ us' = StatusIdle
          /\ orders' = orders]_vars
\* An updateStatus call was rejected on an order that exists
UpdateStatusWasRejected ==
  /\ last = Outcome("updateStatus", "invalid", 1)
  /\ 1 \in DOMAIN orders

\* C6: updateStatus with the order's current status is accepted as a no-op:
\* the entity it goes on to save carries the shippedAt, deliveredAt and
\* cancelledAt of the order it read, and the save stores that entity's values.
SameStatusKeepsTimestamps ==
  [][/\ \A o \in DOMAIN orders, d \in AdditionalData :
          (callsLeft' < callsLeft /\ UpdateStatus_FindOne(o, orders[o].status, d)) =>
            /\ us'.pc = "save"
            /\ us'.order[1].shippedAt = orders[o].shippedAt
            /\ us'.order[1].deliveredAt = orders[o].deliveredAt
            /\ us'.order[1].cancelledAt = orders[o].cancelledAt
     /\ ( /\ us.pc = "save"
          /\ us.from = us.order[1].status
          /\ last' = Outcome("updateStatus", "ok", us.orderId) )
        => /\ orders'[us.orderId].shippedAt = us.order[1].shippedAt
           /\ orders'[us.orderId].deliveredAt = us.order[1].deliveredAt
           /\ orders'[us.orderId].cancelledAt = us.order[1].cancelledAt]_vars

\* A step of the cancel call in slot c that ends it with success.
CancelSucceedsNow(c) ==
  ca[c].pc = "commit" /\ ca'[c].pc = "idle" /\ last' = Outcome("cancel", "ok", ca[c].i)

\* C7: a cancel that succeeds adds each item's quantity to the stock of the
\* item's variant if it has one and of its product otherwise, takes each
\* item's quantity from its product's soldCount, and leaves the order
\* CANCELLED with cancelledAt set and the given reason stored.
CancelRestoresStock ==
  [][\A c \in CancelSlots :
       CancelSucceedsNow(c) =>
         LET o == ca[c].orderId
             items == orders[o].items
         IN /\ \A r \in Rows : stock'[r] = stock[r] + Quantity(items, r)
            /\ \A p \in Products : soldCount'[p] = soldCount[p] - QuantitySold(items, p)
            /\ orders'[o].status = CANCELLED
            /\ orders'[o].cancelledAt # NullDate
            /\ orders'[o].cancellationReason = ReasonOrEmpty(ca[c].reason)]_vars
\* A cancel succeeded on an order that has a variant item and a plain one
CancelledVariantOrder ==
  /\ last.op = "cancel" /\ last.result = "ok" /\ last.at = 2
  /\ \E o \in DOMAIN orders :
       /\ orders[o].status = CANCELLED
       /\ orders[o].cancellationReason = "changed mind"
       /\ \E k \in DOMAIN orders[o].items : orders[o].items[k].variantId # NoVariant

\* C8: cancel on an order that is neither PENDING nor CONFIRMED fails with
\* "Order cannot be cancelled in current status" and changes no stock, no
\* soldCount and no field of the order.
CancelRejectedOutsidePendingConfirmed ==
  [][\A c \in CancelSlots, u \in Users, o \in DOMAIN orders, reason \in Reasons :
       ( /\ callsLeft' < callsLeft
         /\ orders[o].userId = u
         /\ orders[o].status \notin {PENDING, CONFIRMED}
         /\ Cancel_FindOne(c, u, o, reason) )
       => /\ last' = Outcome("cancel", "notcancellable", 0)
          /\ ca' = ca
          /\ UNCHANGED <<db, tx, rowLock>>]_vars
\* A cancel was rejected for the order's status
CancelWasRejected ==
  /\ last = Outcome("cancel", "notcancellable", 0)
  /\ \E o \in DOMAIN orders : orders[o].status \notin {PENDING, CONFIRMED}

\* C9: a cancel that fails on a write after it has issued stock
\* restorations (a later increment or decrement, the order save, the
\* payment save, the commit) leaves stock, soldCount, the order and its
\* payments as they were before the call: no step of a cancel other than
\* its successful commit changes committed data, and the failing step
\* discards the restorations the call had pending.
CancelFailureWritesNothing ==
  [][\A c \in CancelSlots :
       /\ (ca'[c] # ca[c] /\ ~CancelSucceedsNow(c)) => UNCHANGED db
       /\ (ca[c].pc # "idle" /\ ca'[c].pc = "idle" /\ ~CancelSucceedsNow(c)) =>
            /\ tx'[c] = NoPending
            /\ \A r \in Rows : rowLock'[r] # c]_vars
\* A cancel failed on a write after all its restorations were issued
CancelFailedAfterRestoring ==
  /\ last = Outcome("cancel", "storage", 2)
  /\ \E o \in DOMAIN orders : orders[o].status \in {PENDING, CONFIRMED}

\* Checkouts one at a time, with the coupon codes a buyer may send.  Stock
\* differs from row to row; the second product may be inactive.
CheckoutCodes == {NullText, "SAVE10", "FREESHIP", "OLD", "NOPE"}
CheckoutCarts ==
  { <<Line("p1", NoVariant, 2)>>,
    <<Line("p1", "v1", 2), Line("p2", NoVariant, 1)>> }

InitCheckout ==
  /\ stock \in [Rows -> 1..MaxStock]
  /\ soldCount = ZeroProducts
  /\ productStatus \in {ps \in [Products -> {ACTIVE, INACTIVE}] : ps["p1"] = ACTIVE}
  /\ cart \in {c \in [Users -> CheckoutCarts \cup {<<>>, <<Line("p2", NoVariant, 1)>>}] :
                 c["u1"] \in CheckoutCarts /\ c["u2"] \notin CheckoutCarts}
  /\ orders = <<>>
  /\ payments = <<>>
  /\ rowLock = [r \in Rows |-> NoTx]
  /\ tx = [t \in TxIds |-> NoPending]
  /\ cr = [u \in Users |-> CreateIdle]
  /\ ca = [c \in CancelSlots |-> CancelIdle]
  /\ us = StatusIdle
  /\ ad = StatusIdle
  /\ last = NoCall
  /\ now = 0
  /\ callsLeft = MaxCalls
  /\ probe = NoProbe
  /\ coupons = CouponTable

\* No create or cancel call other than that of t is in flight.
NoOtherCall(t) ==
  /\ \A u \in Users \ {t} : cr[u].pc \in {"idle", "done"}
  /\ \A c \in CancelSlots \ {t} : ca[c].pc = "idle"

NextCheckout ==
  \/ \E u \in Users, couponCode \in CheckoutCodes :
       NoOtherCall(u) /\ create(u, couponCode)
  \/ NoOtherCall("c1") /\ cancel("c1")
  \/ \E couponId \in {"SAVE10"} :
       NoOtherCall("c1") /\ ca["c1"].pc = "idle" /\ incrementUsage(couponId)
  \/ \E orderId \in {1} :
       NoOtherCall("c1") /\ ca["c1"].pc = "idle" /\ createPaymentIntent(orderId)
  \/ \E pid \in DOMAIN payments :
       NoOtherCall("c1") /\ ca["c1"].pc = "idle" /\ handlePaymentSuccess(pid)

SpecCheckout == InitCheckout /\ [][NextCheckout]_vars

\* CouponsService.applyCoupon on its own: every sample call is made once,
\* against the issued coupons.
CouponCalls ==
  [code : DOMAIN CouponTable \cup {"save10", "NOPE"},
   subtotal : {0, 5000, 10000, 25000},
   userId : {"u1"},
   productIds : {{}, {"p1"}, {"p2"}},
   categoryIds : {{}, {"books"}},
   applied : {FALSE},
   result : {CouponError("none")}]

InitCoupon ==
  /\ probe \in CouponCalls
  /\ coupons = CouponTable
  /\ stock = [r \in Rows |-> MaxStock]
  /\ soldCount = ZeroProducts
  /\ productStatus = [p \in Products |-> ACTIVE]
  /\ cart = [u \in Users |-> <<>>]
  /\ orders = <<>>
  /\ payments = <<>>
  /\ rowLock = [r \in Rows |-> NoTx]
  /\ tx = [t \in TxIds |-> NoPending]
  /\ cr = [u \in Users |-> CreateIdle]
  /\ ca = [c \in CancelSlots |-> CancelIdle]
  /\ us = StatusIdle
  /\ ad = StatusIdle
  /\ last = NoCall
  /\ now = 1
  /\ callsLeft = 0

Apply_applyCoupon ==
  /\ ~probe.applied
  /\ probe' = [probe EXCEPT
       !.applied = TRUE,
       !.result = CouponsService_applyCoupon(probe.code, probe.subtotal, probe.userId,
                                            probe.productIds, probe.categoryIds)]
  /\ UNCHANGED <<db, rowLock, tx, cr, ca, us, ad, last, now, callsLeft, coupons>>

NextCoupon == Apply_applyCoupon

SpecCoupon == InitCoupon /\ [][NextCoupon]_vars

\* C12: a discount that CouponsService.applyCoupon returns never exceeds the
\* subtotal (a larger computed discount is clamped, not rejected: 150.00 off
\* a subtotal of 100.00 gives 100.00), so subtotal + tax + shipping -
\* discount is at least tax + shipping and never negative.  Amounts are in
\* hundredths of a cent.
DiscountNeverExceedsSubtotal ==
  (probe.applied /\ probe.result.error = "none") =>
    LET subtotal == probe.subtotal * 100
        taxAndShipping == (Tax(probe.subtotal) + FinalShippingCost(probe.subtotal)) * 100
        total == subtotal + taxAndShipping - probe.result.discount
    IN /\ probe.result.discount <= subtotal
       /\ total >= taxAndShipping
       /\ total >= 0
       /\ (probe.code = "BIG150" /\ probe.subtotal = 10000) =>
            probe.result.discount = subtotal
\* applyCoupon accepted a coupon of 150.00 on a subtotal of 100.00
DiscountWasClamped ==
  /\ probe.applied
  /\ probe.code = "BIG150"
  /\ probe.subtotal = 10000
  /\ probe.result.error = "none"
  /\ probe.result.discount = 1000000

\* The row a cart line counts against, and what a cart asks of a row / product
LineRow(line) == IF line.variantId # NoVariant THEN line.variantId ELSE line.productId
LinesOnRow(lines, row) ==
  SumSeq([k \in 1..Len(lines) |->
            IF LineRow(lines[k]) = row THEN lines[k].quantity ELSE 0])
LinesOnProduct(lines, productId) ==
  SumSeq([k \in 1..Len(lines) |->
            IF lines[k].productId = productId THEN lines[k].quantity ELSE 0])
\* What CouponsService.applyCoupon says of the code a checkout was given
CouponGiven(u) ==
  CouponsService_applyCoupon(cr[u].couponCode, cr[u].subtotal, u,
                             {cart[u][k].productId : k \in 1..Len(cart[u])}, {})
NewestOrder == orders'[Len(orders')]

\* C11: the shippingCost stored with a created order is 0 when the subtotal
\* reaches the free-shipping threshold or the coupon applied grants free
\* shipping, and the flat shipping cost otherwise.
ShippingCostFollowsThresholdAndCoupon ==
  [][\A u \in Users :
       CreateSucceedsNow(u) =>
         LET free == /\ cr[u].couponCode # NullText
                     /\ CouponGiven(u).error = "none"
                     /\ CouponGiven(u).freeShipping
         IN NewestOrder.shippingCost =
              IF NewestOrder.subtotal >= FREE_SHIPPING_THRESHOLD \/ free
              THEN 0 ELSE SHIPPING_COST]_vars

\* C13: a checkout given a coupon code that fails validation (unknown,
\* inactive, expired, used up, below the minimum amount) fails and creates
\* no order: no checkout succeeds with a code that applyCoupon rejects.
BadCouponFailsCheckout ==
  [][\A u \in Users :
       CreateSucceedsNow(u) =>
         (cr[u].couponCode = NullText \/ CouponGiven(u).error = "none")]_vars

\* C14: a successful checkout that used a coupon adds exactly 1 to that
\* coupon's usedCount, a failed checkout leaves every usedCount unchanged,
\* and no step of any operation decreases a usedCount.
CouponUseCounted ==
  [][/\ \A code \in DOMAIN coupons :
          coupons'[code].usedCount >= coupons[code].usedCount
     /\ \A u \in Users :
          /\ CreateFailsNow(u) => coupons' = coupons
          /\ (CreateSucceedsNow(u) /\ cr[u].couponCode # NullText
                /\ CouponGiven(u).error = "none") =>
               coupons'[CouponGiven(u).couponId].usedCount =
                 coupons[CouponGiven(u).couponId].usedCount + 1]_vars

NoTwoTransactionsWaitForEachOther ==
  \A t1 \in TxIds, t2 \in TxIds : ~(WaitsFor(t1, t2) /\ WaitsFor(t2, t1))

\* C17: a checkout whose generated order number is that of a stored order
\* does not end in that failure (the number is generated again and the
\* caller gets an order), and no two orders share an order number.
OrderNumberCollisionIsRetried ==
  /\ ~(last.op = "create" /\ last.result = "collision")
  /\ \A o1 \in DOMAIN orders, o2 \in DOMAIN orders :
       orders[o1].orderNumber = orders[o2].orderNumber => o1 = o2

\* C18: the unit price of every order item is the price of its variant if
\* it has one and of its product otherwise, and of that row the sale price
\* whenever the row has one.
UnitPriceIsSalePriceWhenPresent ==
  \A o \in DOMAIN orders : \A k \in DOMAIN orders[o].items :
    LET item == orders[o].items[k]
        row == IF item.variantId # NoVariant THEN item.variantId ELSE item.productId
    IN item.unitPrice = IF SalePrice[row] # NullPrice THEN SalePrice[row] ELSE Price[row]

\* The first line of a cart that fails a check, 0 if every line passes: the
\* product is not ACTIVE, or the quantity exceeds the stock of the line's row.
LineFails(line) ==
  \/ productStatus[line.productId] # ACTIVE
  \/ line.quantity > stock[LineRow(line)]
FirstFailingLine(lines) ==
  IF \E k \in 1..Len(lines) : LineFails(lines[k])
  THEN CHOOSE k \in 1..Len(lines) :
         LineFails(lines[k]) /\ \A j \in 1..(k - 1) : ~LineFails(lines[j])
  ELSE 0

\* C19: a checkout fails when a cart line's product is not ACTIVE and fails
\* with the insufficient-stock error when a line's quantity exceeds the
\* stock of its variant (of its product when it has none); it succeeds only
\* when every line passes both checks.  The error is that of the first
\* failing line, unless a write failed before that line was reached.
CheckoutValidatesEveryLine ==
  [][\A u \in Users :
       LET k == FirstFailingLine(cart[u])
       IN /\ CreateSucceedsNow(u) => k = 0
          /\ (CreateFailsNow(u) /\ k # 0) =>
               \/ last'.result = "storage" /\ last'.at < k
               \/ /\ last'.at = k - 1
                  /\ last'.result =
                       IF productStatus[cart[u][k].productId] # ACTIVE
                       THEN "unavailable" ELSE "insufficient"
          /\ (CreateFailsNow(u) /\ k = 0) =>
               last'.result \in {"empty", "collision", "storage"}]_vars
\* A checkout was refused for a variant's stock that its product had
CheckoutRefusedForVariantStock ==
  /\ last = Outcome("create", "insufficient", 0)
  /\ cart["u1"] = <<Line("p1", "v1", 2), Line("p2", NoVariant, 1)>>
  /\ stock["v1"] < 2
  /\ stock["p1"] >= 2

\* ------------------------------------------- ProductsService.reserveStock
\* reserveStock(items) runs outside any transaction: a first loop reads each
\* item's product and returns false at the first one whose stock is below
\* that item's quantity; a second loop decrements the stock item by item.
\* probe holds the call: its items, its position, and stockBefore, the stock
\* when the call began.
ReserveItem(productId, quantity) == [productId |-> productId, quantity |-> quantity]
ReserveItems ==
  {ReserveItem(p, q) : p \in Products, q \in 1..MaxStock}
ReserveLists ==
  {<<a>> : a \in ReserveItems} \cup {<<a, b>> : a \in ReserveItems, b \in ReserveItems}
ReserveFrame ==
  UNCHANGED <<soldCount, productStatus, cart, orders, payments,
              rowLock, tx, cr, ca, us, ad, now, callsLeft, coupons>>

\* for (const item of items) { if (product.stock < item.quantity) return false }
reserveStock_Check ==
  /\ probe.pc = "check"
  /\ IF probe.i > Len(probe.items)
     THEN /\ probe' = [probe EXCEPT !.pc = "deduct", !.i = 1]
          /\ UNCHANGED last
     ELSE IF stock[probe.items[probe.i].productId] < probe.items[probe.i].quantity
     THEN /\ probe' = [probe EXCEPT !.pc = "done", !.result = FALSE]
          /\ last' = Outcome("reserveStock", "false", probe.i - 1)
     ELSE /\ probe' = [probe EXCEPT !.i = @ + 1]
          /\ UNCHANGED last
  /\ UNCHANGED stock
  /\ ReserveFrame

\* for (const item of items) { decrement({id}, "stock", item.quantity) }
reserveStock_Deduct ==
  /\ probe.pc = "deduct"
  /\ IF probe.i > Len(probe.items)
     THEN /\ probe' = [probe EXCEPT !.pc = "done", !.result = TRUE]
          /\ last' = Outcome("reserveStock", "true", Len(probe.items))
          /\ UNCHANGED stock
     ELSE /\ stock' = [stock EXCEPT ![probe.items[probe.i].productId] =
                                      @ - probe.items[probe.i].quantity]
          /\ probe' = [probe EXCEPT !.i = @ + 1]
          /\ UNCHANGED last
  /\ ReserveFrame

reserveStock == reserveStock_Check \/ reserveStock_Deduct

\* One reserveStock call on any stock and any list of one or two items.
InitReserve ==
  /\ stock \in {st \in [Rows -> 0..MaxStock] : st["v1"] = 0}
  /\ probe \in {[items |-> items, pc |-> "check", i |-> 1, result |-> FALSE,
                 stockBefore |-> stock] : items \in ReserveLists}
  /\ coupons = CouponTable
  /\ soldCount = ZeroProducts
  /\ productStatus = [p \in Products |-> ACTIVE]
  /\ cart = [u \in Users |-> <<>>]
  /\ orders = <<>>
  /\ payments = <<>>
  /\ rowLock = [r \in Rows |-> NoTx]
  /\ tx = [t \in TxIds |-> NoPending]
  /\ cr = [u \in Users |-> CreateIdle]
  /\ ca = [c \in CancelSlots |-> CancelIdle]
  /\ us = StatusIdle
  /\ ad = StatusIdle
  /\ last = NoCall
  /\ now = 1
  /\ callsLeft = 0

NextReserve == reserveStock

SpecReserve == InitReserve /\ [][NextReserve]_vars

\* The total quantity a list asks of one product
Requested(items, productId) ==
  SumSeq([k \in 1..Len(items) |->
            IF items[k].productId = productId THEN items[k].quantity ELSE 0])

\* C20: reserveStock is all-or-nothing: when the list asks of some product
\* more in total than its stock, the call returns false; a call that returns
\* false leaves every stock as it was; a call that returns true has taken
\* from each product exactly the quantity asked of it and no stock is
\* negative.
ReserveStockAllOrNothing ==
  probe.pc = "done" =>
    /\ (\E p \in Products : Requested(probe.items, p) > probe.stockBefore[p])
         => probe.result = FALSE
    /\ probe.result = FALSE => stock = probe.stockBefore
    /\ probe.result = TRUE =>
         \A p \in Products :
           /\ stock[p] = probe.stockBefore[p] - Requested(probe.items, p)
           /\ stock[p] >= 0

\* The rules a coupon call is held to, in the order they are tested, and the
\* error of the first one that fails ("none": every rule is met).  No order
\* records a coupon, so a user has no prior use of any coupon.
PriorUses(code, userId) == 0
RuleBroken(call) ==
  LET key == toUpperCase(call.code)
  IN IF key \notin DOMAIN coupons THEN "Invalid coupon code"
     ELSE IF coupons[key].status # COUPON_ACTIVE THEN "Coupon is not active"
     ELSE IF coupons[key].validFrom # NullDate /\ now < coupons[key].validFrom
       THEN "Coupon is not yet valid"
     ELSE IF coupons[key].validUntil # NullDate /\ now > coupons[key].validUntil
       THEN "Coupon has expired"
     ELSE IF coupons[key].maxUses > 0 /\ coupons[key].usedCount >= coupons[key].maxUses
       THEN "Coupon usage limit reached"
     ELSE IF call.subtotal < coupons[key].minOrderAmount
       THEN "Minimum order amount required"
     ELSE IF /\ coupons[key].maxUsesPerUser > 0
             /\ PriorUses(key, call.userId) >= coupons[key].maxUsesPerUser
       THEN "You have reached the maximum usage limit for this coupon"
     ELSE "none"
Unrestricted(call) ==
  LET key == toUpperCase(call.code)
  IN key \in DOMAIN coupons =>
       coupons[key].applicableCategories = {} /\ coupons[key].applicableProducts = {}

\* C21: applyCoupon returns a discount only when the coupon exists, is
\* ACTIVE, is within its validity dates, has uses left, the user is below
\* the per-user limit and the subtotal reaches the minimum amount; a call
\* that breaks one of these rules fails with that rule's error and returns
\* no discount, and a call on an unrestricted coupon that breaks none of
\* them returns a discount.
CouponAppliedByItsRules ==
  probe.applied =>
    /\ probe.result.error = "none" => RuleBroken(probe) = "none"
    /\ RuleBroken(probe) # "none" =>
         probe.result.error = RuleBroken(probe) /\ probe.result.discount = 0
    /\ (RuleBroken(probe) = "none" /\ Unrestricted(probe)) => probe.result.error = "none"

\* C22: when a cancellation succeeds, no payment of the cancelled order is
\* COMPLETED afterwards: each payment of the order that was COMPLETED is
\* REFUNDED, with refundedAt and refundReason set, also when a payment was
\* confirmed while the cancellation was running.
CancelRefundsEveryCompletedPayment ==
  [][\A c \in CancelSlots :
       CancelSucceedsNow(c) =>
         \A pid \in DOMAIN payments :
           payments[pid].orderId = ca[c].orderId =>
             /\ payments'[pid].paymentStatus # PAY_COMPLETED
             /\ payments[pid].paymentStatus = PAY_COMPLETED =>
                  /\ payments'[pid].paymentStatus = PAY_REFUNDED
                  /\ payments'[pid].refundedAt # NullDate
                  /\ payments'[pid].refundReason = ReasonOrEmpty(ca[c].reason)]_vars

\* C23: findOne with the id of a user who does not own the order finds
\* nothing ('Order not found'), and a cancel by such a user ends with that
\* error without changing any order, stock, soldCount or payment and without
\* opening a transaction.
OnlyOwnerReadsAndCancels ==
  [][\A c \in CancelSlots, u \in Users, o \in DOMAIN orders, reason \in Reasons :
       orders[o].userId # u =>
         /\ findOne(o, u) = <<>>
         /\ (callsLeft' < callsLeft /\ Cancel_FindOne(c, u, o, reason)) =>
              /\ last' = Outcome("cancel", "notfound", 0)
              /\ ca' = ca
              /\ UNCHANGED <<db, tx, rowLock>>]_vars
\* A cancel found nothing although every order id is that of a stored order
ForeignCancelWasRefused ==
  /\ last = Outcome("cancel", "notfound", 0)
  /\ DOMAIN orders = OrderIds

\* C24: in every committed state each order has at least one item and
\* exactly one payment made by checkout, which is PENDING and whose amount is
\* the order's total; every payment belongs to a stored order.
OrderStoredWithItemsAndPayment ==
  /\ \A o \in DOMAIN orders :
       /\ Len(orders[o].items) >= 1
       /\ Cardinality({pid \in PaymentsOf(o) : ~payments[pid].intent}) = 1
       /\ \A pid \in PaymentsOf(o) :
            ~payments[pid].intent =>
              /\ payments[pid].paymentStatus = PAY_PENDING
              /\ payments[pid].amount = orders[o].total
  /\ \A pid \in DOMAIN payments : payments[pid].orderId \in DOMAIN orders
\* An order with its checkout payment and a second, completed payment
OrderPaidThroughSecondPayment ==
  \E o \in DOMAIN orders : \E pid \in PaymentsOf(o) :
    /\ payments[pid].paymentStatus = PAY_COMPLETED
    /\ Cardinality(PaymentsOf(o)) = 2

StockCallers == {"a", "b"}
StockCallIdle == [pc |-> "idle", productId |-> NullText, quantity |-> 0, read |-> 0]
StockDeltas == (-MaxStock..MaxStock) \ {0}
StockFrame ==
  UNCHANGED <<soldCount, productStatus, cart, orders, payments,
              rowLock, tx, cr, ca, us, ad, coupons>>

\* const product = await this.findOne(productId)
UpdateStock_FindOne(caller, productId, quantity) ==
  /\ probe.calls[caller].pc = "idle"
  /\ probe' = [probe EXCEPT !.calls[caller] =
       [pc |-> "read", productId |-> productId, quantity |-> quantity,
        read |-> stock[productId]]]
  /\ UNCHANGED <<stock, last, now, callsLeft>>
  /\ StockFrame

\* newStock = product.stock + quantity; if (newStock < 0) throw;
\* productRepository.update(productId, {stock: newStock})
UpdateStock_Update(caller) ==
  /\ probe.calls[caller].pc = "read"
  /\ LET call == probe.calls[caller]
         newStock == call.read + call.quantity
     IN IF newStock < 0
        THEN /\ probe' = [probe EXCEPT !.calls[caller].pc = "done"]
             /\ last' = Outcome("updateStock", "insufficient", 0)
             /\ UNCHANGED stock
        ELSE /\ stock' = [stock EXCEPT ![call.productId] = newStock]
             /\ probe' = [probe EXCEPT !.calls[caller].pc = "done",
                                       !.written[call.productId] = @ + call.quantity]
             /\ last' = Outcome("updateStock", "ok", 0)
  /\ UNCHANGED <<now, callsLeft>>
  /\ StockFrame

updateStock(caller) ==
  \/ \E productId \in Products, quantity \in StockDeltas :
       UpdateStock_FindOne(caller, productId, quantity)
  \/ UpdateStock_Update(caller)

\* productRepository.decrement({id}, "stock", quantity): one UPDATE
\* statement, stock = stock - quantity
decrement(productId, quantity) ==
  /\ Tick
  /\ stock' = [stock EXCEPT ![productId] = @ - quantity]
  /\ probe' = [probe EXCEPT !.written[productId] = @ - quantity]
  /\ last' = Outcome("decrement", "ok", 0)
  /\ StockFrame

\* Two updateStock calls and one decrement, in any interleaving.
InitStock ==
  /\ stock \in {st \in [Rows -> 0..MaxStock] : st["v1"] = 0}
  /\ probe = [calls |-> [caller \in StockCallers |-> StockCallIdle],
              stockBefore |-> stock,
              written |-> ZeroProducts]
  /\ coupons = CouponTable
  /\ soldCount = ZeroProducts
  /\ productStatus = [p \in Products |-> ACTIVE]
  /\ cart = [u \in Users |-> <<>>]
  /\ orders = <<>>
  /\ payments = <<>>
  /\ rowLock = [r \in Rows |-> NoTx]
  /\ tx = [t \in TxIds |-> NoPending]
  /\ cr = [u \in Users |-> CreateIdle]
  /\ ca = [c \in CancelSlots |-> CancelIdle]
  /\ us = StatusIdle
  /\ ad = StatusIdle
  /\ last = NoCall
  /\ now = 1
  /\ callsLeft = 1

NextStock ==
  \/ \E caller \in StockCallers : updateStock(caller)
  \/ \E productId \in Products : decrement(productId, 1)

SpecStock == InitStock /\ [][NextStock]_vars

\* C26: no stock update is lost: with updateStock calls and atomic
\* decrements running concurrently, each product's stock is always its
\* initial stock plus the sum of the deltas of the updates that have been
\* written.
NoStockUpdateLost ==
  \A p \in Products : stock[p] = probe.stockBefore[p] + probe.written[p]

\* C27: in every reachable state an order that is SHIPPED, DELIVERED or
\* RETURNED has shippedAt set, an order that is DELIVERED or RETURNED has
\* deliveredAt set, and an order that is CANCELLED has cancelledAt set,
\* whichever operation gave it that status.
TimestampsFollowStatus ==
  \A o \in DOMAIN orders :
    /\ orders[o].status \in {SHIPPED, DELIVERED, RETURNED} => orders[o].shippedAt # NullDate
    /\ orders[o].status \in {DELIVERED, RETURNED} => orders[o].deliveredAt # NullDate
    /\ orders[o].status = CANCELLED => orders[o].cancelledAt # NullDate

\* C28: every product's soldCount is at least 0 in every state, and it goes
\* down only in the commit of a cancellation, by no more than the cancelled
\* order's quantity of that product, for an order that was not cancelled
\* before.
SoldCountOnlyReversedByCancel ==
  [][\A p \in Products :
       /\ soldCount'[p] >= 0
       /\ soldCount'[p] < soldCount[p] =>
            \E c \in CancelSlots :
              /\ CancelSucceedsNow(c)
              /\ orders[ca[c].orderId].status # CANCELLED
              /\ soldCount[p] - soldCount'[p] =
                   LinesOnProduct(orders[ca[c].orderId].items, p)]_vars

\* The quantity of a row that the orders not CANCELLED hold
HeldBy(orderSeq, row) ==
  SumSeq([o \in 1..Len(orderSeq) |->
            IF orderSeq[o].status # CANCELLED
            THEN LinesOnRow(orderSeq[o].items, row) ELSE 0])

\* C29: stock is conserved: for every product and variant, the stock plus
\* the quantities of it in all orders that are not CANCELLED is the same
\* after every step as before it (so it stays the initial stock), whichever
\* operation takes an order to CANCELLED.
StockConserved ==
  [][\A r \in Rows :
       stock'[r] + HeldBy(orders', r) = stock[r] + HeldBy(orders, r)]_vars

\* C30: an order's stock is restored at most once: a cancellation that
\* commits a stock restoration does so for an order that is still PENDING
\* or CONFIRMED, also when two cancellations of the order run concurrently.
StockRestoredAtMostOnce ==
  [][\A c \in CancelSlots :
       (CancelSucceedsNow(c) /\ stock' # stock) =>
          orders[ca[c].orderId].status \in {PENDING, CONFIRMED}]_vars

====
